---- MODULE Spec2Model ----
(***************************************************************************)
(* Model of the single-turn RAG agent (src/agents/rag/rag_agent.py): the   *)
(* import-time ingestion (load_documents, chunking, index build) and the   *)
(* query path (answer_question) with its two external providers; and of    *)
(* the multi-turn loop of src/lichess_runner.py (main).                    *)
(*                                                                         *)
(* Text is a sequence of one-character strings.  A vector is a sequence of *)
(* integers.  A float is the rational [num, den] (den > 0, lowest terms)   *)
(* it stands for, or nan (0/0); math.sqrt, * and / round to the nearest    *)
(* float of Precision significant bits, ties to even, as IEEE-754          *)
(* arithmetic does.                                                        *)
(***************************************************************************)
EXTENDS Integers, Sequences, FiniteSets, TLC

(***************************************************************************)
(* Bounds of the model.                                                    *)
(***************************************************************************)
\* pdf files plus pdf pages in knowledge/
MaxDirSize == 4
\* characters of a question
MaxQLen == 1
\* pages of the one-document corpus of SpecQuery
MaxChunks == 4
\* components of a vector given to cosine
MaxVecLen == 3
\* characters of a text given to normalize_text and chunk_text
MaxTextLen == 8
\* the largest max_chars given to chunk_text
MaxMaxChars == 4
\* pages of the one-document corpus of SpecRank
MaxRanked == 7
\* the largest MAX_TURNS of the Lichess runner
MaxTurns == 3

(***************************************************************************)
(* Program constants.                                                      *)
(***************************************************************************)
TOP_K == 3
MAX_CHARS_PER_CHUNK == 900
PDF_ERROR_MESSAGE == "I can't answer because the document is missing or unreadable."
\* the literal returned at lines 257, 263, 266, 270 and 281
CANNOT_ANSWER == "I cannot answer based on the documents."

(***************************************************************************)
(* Characters.                                                             *)
(***************************************************************************)
UpperCase == <<"A","B","C","D","E","F","G","H","I","J","K","L","M",
               "N","O","P","Q","R","S","T","U","V","W","X","Y","Z">>
LowerCase == <<"a","b","c","d","e","f","g","h","i","j","k","l","m",
               "n","o","p","q","r","s","t","u","v","w","x","y","z">>
Digits == {"0","1","2","3","4","5","6","7","8","9"}

Range(s) == {s[i] : i \in DOMAIN s}

\* \s of the re module, on the characters of the model
WhiteSpace == {" ", "\t", "\n", "\r"}

\* str.lower() on one character
lower(c) ==
  IF \E i \in DOMAIN UpperCase : UpperCase[i] = c
  THEN LowerCase[CHOOSE i \in DOMAIN UpperCase : UpperCase[i] = c]
  ELSE c

\* the class [A-Za-z0-9]
IsAlnum(c) == c \in Range(UpperCase) \cup Range(LowerCase) \cup Digits

\* the lookbehind class [.!?]
IsSentenceEnd(c) == c \in {".", "!", "?"}

\* str.lower()
LowerText(s) == [i \in DOMAIN s |-> lower(s[i])]

RECURSIVE SelectSeqBy(_, _)
\* [x for x in s if keep[x]] with keep given as the set of kept indices
SelectSeqBy(s, keep) ==
  IF s = <<>> THEN <<>>
  ELSE LET n == Len(s)
           front == SelectSeqBy(SubSeq(s, 1, n - 1), keep)
       IN IF n \in keep THEN Append(front, s[n]) ELSE front

RECURSIVE lstrip(_)
lstrip(s) ==
  IF s # <<>> /\ Head(s) \in WhiteSpace THEN lstrip(Tail(s)) ELSE s

RECURSIVE rstrip(_)
rstrip(s) ==
  IF s # <<>> /\ s[Len(s)] \in WhiteSpace
  THEN rstrip(SubSeq(s, 1, Len(s) - 1)) ELSE s

\* str.strip()
strip(s) == rstrip(lstrip(s))

RECURSIVE CollapseWs(_)
\* re.sub(r"\s+", " ", text)
CollapseWs(s) ==
  IF s = <<>> THEN <<>>
  ELSE IF Head(s) \in WhiteSpace
       THEN <<" ">> \o CollapseWs(lstrip(s))
       ELSE <<Head(s)>> \o CollapseWs(Tail(s))

\* normalize_text without the strip()
normalize_text_no_strip(text) == CollapseWs(text)

normalize_text(text) == strip(CollapseWs(text))

(***************************************************************************)
(* tokenize                                                                *)
(***************************************************************************)
stopwords ==
  { <<"t","h","e">>, <<"a","n","d">>, <<"o","f">>, <<"i","n">>, <<"t","o">>,
    <<"f","o","r">>, <<"a">>, <<"a","n">>, <<"o","n">>, <<"w","i","t","h">>,
    <<"a","t">>, <<"b","y">>, <<"f","r","o","m">>, <<"i","s">>, <<"a","r","e">>,
    <<"a","s">>, <<"t","h","a","t">>, <<"t","h","i","s">>, <<"i","t">>,
    <<"b","e">>, <<"w","h","a","t">>, <<"w","h","y">>, <<"h","o","w">>,
    <<"w","h","o">>, <<"w","h","i","c","h">>, <<"w","h","e","n">>,
    <<"w","h","e","r","e">> }

RECURSIVE AlnumRuns(_, _)
\* re.findall(r"[A-Za-z0-9]+", s): the maximal runs, cur being the open run
AlnumRuns(s, cur) ==
  IF s = <<>> THEN (IF cur = <<>> THEN <<>> ELSE <<cur>>)
  ELSE IF IsAlnum(Head(s)) THEN AlnumRuns(Tail(s), Append(cur, Head(s)))
       ELSE (IF cur = <<>> THEN <<>> ELSE <<cur>>) \o AlnumRuns(Tail(s), <<>>)

\* the same without the stopword filter
tokenize_keep_stopwords(text) == AlnumRuns(LowerText(text), <<>>)

tokenize(text) ==
  LET found == AlnumRuns(LowerText(text), <<>>)
  IN SelectSeqBy(found, {i \in DOMAIN found : found[i] # <<>> /\ found[i] \notin stopwords})

(***************************************************************************)
(* split_sentences and chunk_text                                          *)
(***************************************************************************)
RECURSIVE SplitAfterEnd(_, _, _)
\* re.split(r"(?<=[.!?])\s+", text): cur is the open part, prev the previous
\* character ("" at the start of the text)
SplitAfterEnd(s, cur, prev) ==
  IF s = <<>> THEN <<cur>>
  ELSE IF Head(s) \in WhiteSpace /\ IsSentenceEnd(prev)
       THEN <<cur>> \o SplitAfterEnd(lstrip(s), <<>>, " ")
       ELSE SplitAfterEnd(Tail(s), Append(cur, Head(s)), Head(s))

split_sentences(text) ==
  LET split == SplitAfterEnd(text, <<>>, "")
      parts == [i \in DOMAIN split |-> strip(split[i])]
  IN SelectSeqBy(parts, {i \in DOMAIN parts : parts[i] # <<>>})

RECURSIVE JoinWith(_, _)
\* sep.join(parts)
JoinWith(sep, parts) ==
  IF parts = <<>> THEN <<>>
  ELSE IF Len(parts) = 1 THEN parts[1]
       ELSE parts[1] \o sep \o JoinWith(sep, Tail(parts))

RECURSIVE ChunkLoop_no_final_flush(_, _, _, _, _)
\* the loop without the flush of lines 123-124
ChunkLoop_no_final_flush(sentences, chunks, current, current_len, max_chars) ==
  IF sentences = <<>> THEN chunks
  ELSE LET sentence == Head(sentences)
           flush == current_len + Len(sentence) > max_chars /\ current # <<>>
           chunks1 == IF flush THEN Append(chunks, strip(JoinWith(<<" ">>, current))) ELSE chunks
           current1 == IF flush THEN <<>> ELSE current
           len1 == IF flush THEN 0 ELSE current_len
       IN ChunkLoop_no_final_flush(Tail(sentences), chunks1, Append(current1, sentence),
                                   len1 + Len(sentence) + 1, max_chars)

RECURSIVE ChunkLoop_flush_early(_, _, _, _, _)
\* the loop with the test of line 117 written ">="
ChunkLoop_flush_early(sentences, chunks, current, current_len, max_chars) ==
  IF sentences = <<>>
  THEN IF current # <<>> THEN Append(chunks, strip(JoinWith(<<" ">>, current))) ELSE chunks
  ELSE LET sentence == Head(sentences)
           flush == current_len + Len(sentence) >= max_chars /\ current # <<>>
           chunks1 == IF flush THEN Append(chunks, strip(JoinWith(<<" ">>, current))) ELSE chunks
           current1 == IF flush THEN <<>> ELSE current
           len1 == IF flush THEN 0 ELSE current_len
       IN ChunkLoop_flush_early(Tail(sentences), chunks1, Append(current1, sentence),
                                len1 + Len(sentence) + 1, max_chars)

RECURSIVE ChunkLoop(_, _, _, _, _)
\* the for loop of chunk_text and the final flush
ChunkLoop(sentences, chunks, current, current_len, max_chars) ==
  IF sentences = <<>>
  THEN IF current # <<>> THEN Append(chunks, strip(JoinWith(<<" ">>, current))) ELSE chunks
  ELSE LET sentence == Head(sentences)
           flush == current_len + Len(sentence) > max_chars /\ current # <<>>
           chunks1 == IF flush THEN Append(chunks, strip(JoinWith(<<" ">>, current))) ELSE chunks
           current1 == IF flush THEN <<>> ELSE current
           len1 == IF flush THEN 0 ELSE current_len
       IN ChunkLoop(Tail(sentences), chunks1, Append(current1, sentence),
                    len1 + Len(sentence) + 1, max_chars)

chunk_text(text, max_chars) ==
  LET chunks == ChunkLoop(split_sentences(text), <<>>, <<>>, 0, max_chars)
  IN SelectSeqBy(chunks, {i \in DOMAIN chunks : chunks[i] # <<>>})

(***************************************************************************)
(* Vectors and cosine                                                      *)
(***************************************************************************)
RECURSIVE SumSeq(_)
SumSeq(s) == IF s = <<>> THEN 0 ELSE Head(s) + SumSeq(Tail(s))

Sgn(x) == IF x > 0 THEN 1 ELSE IF x < 0 THEN -1 ELSE 0

\* the float 0.0
ZeroScore == [num |-> 0, den |-> 1]

RECURSIVE GCD(_, _)
GCD(a, b) == IF b = 0 THEN a ELSE GCD(b, a % b)

Abs(x) == IF x < 0 THEN -x ELSE x

\* the rational num/den (den > 0) in lowest terms, so that equal floats are
\* equal values
Score(num, den) ==
  LET g == GCD(Abs(num), den)
  IN [num |-> num \div g, den |-> den \div g]

\* float('nan'): the float that is no number, 0/0 here
NaNScore == [num |-> 0, den |-> 0]

IsNaN(x) == x.den = 0

\* x > y, x >= y, x < y and x > 0 on floats: all False when one side is nan
ScoreGT(x, y) == x.num * y.den > y.num * x.den
ScoreGE(x, y) == ~IsNaN(x) /\ ~IsNaN(y) /\ x.num * y.den >= y.num * x.den
ScoreLT(x, y) == ScoreGT(y, x)
ScorePositive(x) == x.num > 0

\* significant bits of a float: binary64 has 53; the model keeps 13, with
\* which every cosine of two vectors over {-1, 0, 1} of up to four
\* components falls on the same side of -1.0 and of 1.0 as in binary64, and
\* every product stays below 2^31
Precision == 13

Pow2(n) == 2 ^ n

RECURSIVE ISqrt(_)
\* the integer part of the square root of n
ISqrt(n) ==
  IF n < 2 THEN n
  ELSE LET s == 2 * ISqrt(n \div 4)
       IN IF (s + 1) * (s + 1) <= n THEN s + 1 ELSE s

RECURSIVE SqrtScale(_, _)
\* the least k from k on with n * 4^k of 2 * Precision - 1 bits or more
SqrtScale(n, k) ==
  IF n * Pow2(2 * k) >= Pow2(2 * (Precision - 1)) THEN k ELSE SqrtScale(n, k + 1)

\* math.sqrt(n), 0 < n < 4^Precision: the float nearest to the square root
\* (the square root of an integer is never halfway between two floats)
FloatSqrt(n) ==
  LET k == SqrtScale(n, 0)
      scaled == n * Pow2(2 * k)
      m == ISqrt(scaled)
  IN Score(IF scaled > m * m + m THEN m + 1 ELSE m, Pow2(k))

\* num / den * 2^k as a fraction, the powers of two of den cancelled first
Scaled(num, den, k) ==
  LET g == GCD(Pow2(k), den)
  IN [n |-> num * (Pow2(k) \div g), d |-> den \div g]

RECURSIVE RoundScale(_, _, _)
\* the least k from k on with num / den * 2^k >= 2^(Precision - 1)
RoundScale(num, den, k) ==
  IF Scaled(num, den, k).n \div Scaled(num, den, k).d >= Pow2(Precision - 1) THEN k
  ELSE RoundScale(num, den, k + 1)

\* the float nearest to num / den, ties to even, for
\* 0 < num / den < 2^Precision
FloatRound(num, den) ==
  LET k == RoundScale(num, den, 0)
      n == Scaled(num, den, k).n
      d == Scaled(num, den, k).d
      q == n \div d
      r == n % d
  IN Score(IF 2 * r > d \/ (2 * r = d /\ q % 2 = 1) THEN q + 1 ELSE q, Pow2(k))

\* x * y and x / y of two positive floats
FloatMul(x, y) == FloatRound(x.num * y.num, x.den * y.den)
FloatDiv(x, y) == FloatRound(x.num * y.den, x.den * y.num)

\* int / float: the sign is that of the int
IntDivFloat(n, y) ==
  IF n = 0 THEN ZeroScore
  ELSE LET q == FloatDiv(Score(Abs(n), 1), y)
       IN [num |-> Sgn(n) * q.num, den |-> q.den]

\* dot / (na * nb) with na = math.sqrt(na2) and nb = math.sqrt(nb2), for
\* every dot product and pair of squared norms of vectors over {-1, 0, 1} of
\* up to MaxVecLen components; a constant, computed once
Quotient ==
  [dot \in (-MaxVecLen)..MaxVecLen, na2 \in 1..MaxVecLen, nb2 \in 1..MaxVecLen |->
     IntDivFloat(dot, FloatMul(FloatSqrt(na2), FloatSqrt(nb2)))]

\* a vector component that is float('nan'): the one component that is no
\* number, written as an integer that no other component takes
nan == 2

HasNaN(v) == \E i \in DOMAIN v : v[i] = nan

\* cosine without the length test: zip() stops at the shorter vector
cosine_common_prefix(a, b) ==
  IF a = <<>> \/ b = <<>> THEN ZeroScore
  ELSE LET n == IF Len(a) < Len(b) THEN Len(a) ELSE Len(b)
           dot == SumSeq([i \in 1..n |-> a[i] * b[i]])
           na2 == SumSeq([i \in DOMAIN a |-> a[i] * a[i]])
           nb2 == SumSeq([i \in DOMAIN b |-> b[i] * b[i]])
       IN IF na2 = 0 \/ nb2 = 0 THEN ZeroScore
          ELSE Quotient[dot, na2, nb2]

\* a nan component makes dot and the norm of its vector nan: the norm is
\* not == 0, and the quotient is nan unless the other norm is 0
cosine(a, b) ==
  IF a = <<>> \/ b = <<>> \/ Len(a) # Len(b) THEN ZeroScore
  ELSE IF HasNaN(a) \/ HasNaN(b)
  THEN IF \/ (~HasNaN(a) /\ \A i \in DOMAIN a : a[i] = 0)
          \/ (~HasNaN(b) /\ \A i \in DOMAIN b : b[i] = 0)
       THEN ZeroScore ELSE NaNScore
  ELSE LET dot == SumSeq([i \in DOMAIN a |-> a[i] * b[i]])
           na2 == SumSeq([i \in DOMAIN a |-> a[i] * a[i]])
           nb2 == SumSeq([i \in DOMAIN b |-> b[i] * b[i]])
       IN IF na2 = 0 \/ nb2 = 0 THEN ZeroScore
          ELSE Quotient[dot, na2, nb2]

(***************************************************************************)
(* The external providers: what one call can produce.                      *)
(***************************************************************************)
\* vectors an embedding provider returns: empty, of another dimension, and
\* three vectors whose cosines to each other are 1, positive below 1,
\* exactly 0 and negative
Vecs == { <<>>, <<1>>, <<1, 0>>, <<1, 1>>, <<-1, 1>> }

\* the vector of a response of the wrong length
Filler == <<1, 0>>

SeqsUpTo(S, n) == UNION {[1..k -> S] : k \in 0..n}

NoCall == [kind |-> "none", data |-> <<>>]

\* a response of k vectors where n were asked for, k # n: the callers look at
\* no more than its length and its first vector
Misaligned(n) == {[i \in 1..k |-> Filler] : k \in (0..(n + 1)) \ {n}}

\* client.embeddings.create on n texts: an exception, a response without
\* usable .data/.embedding, a list of the wrong length, or one vector per text
EmbedResponses(n) ==
  {[kind |-> "raise", data |-> <<>>], [kind |-> "malformed", data |-> <<>>]}
  \cup {[kind |-> "data", data |-> d] : d \in Misaligned(n)}
  \cup {[kind |-> "data", data |-> d] : d \in [1..n -> Vecs]}

GeneratedText == "grounded answer"

\* client.chat.completions.create: an exception, a completion without
\* choices[0].message.content, or a completion with text
GenResponses ==
  {[kind |-> "raise", text |-> ""], [kind |-> "malformed", text |-> ""],
   [kind |-> "ok", text |-> GeneratedText]}

\* resp is the provider's behaviour if it is called
embed_texts(texts, resp) ==
  IF texts = <<>> THEN <<>>
  ELSE IF resp.kind = "data" THEN resp.data
  ELSE <<>>

\* the provider is called only for a non-empty batch
embed_calls_provider(texts) == texts # <<>>

\* no exception left the call
NoException == "none"

\* a returned str: a literal or generated text, or the joined context parts
Literal(s) == [kind |-> "text", text |-> s, parts |-> <<>>]
Joined(parts) == [kind |-> "context", text |-> "", parts |-> parts]
NoAnswer == [kind |-> "none", text |-> "", parts |-> <<>>]
REFUSAL == Literal(CANNOT_ANSWER)

\* generate_answer without the try/except
generate_answer_unguarded(question_, context, resp) ==
  IF resp.kind = "ok" THEN [answer |-> Literal(resp.text), raised |-> NoException]
  ELSE [answer |-> NoAnswer, raised |-> "Exception"]

generate_answer(question_, context, resp) ==
  IF resp.kind = "ok" THEN [answer |-> Literal(resp.text), raised |-> NoException]
  ELSE [answer |-> REFUSAL, raised |-> NoException]

(***************************************************************************)
(* The document source.                                                    *)
(***************************************************************************)
\* page.extract_text(): raises, or returns raw text (None and "" end as the
\* whitespace-only text does: normalize_text gives "")
SampleText == <<"a", ".", " ", " ", "b">>
RawTexts == { <<" ", "\n">>, SampleText }

PageOutcomes ==
  {[kind |-> "raises", text |-> <<>>]}
  \cup {[kind |-> "text", text |-> t] : t \in RawTexts}

\* a *.pdf file of at most p pages: PdfReader(path) raises, or iterating
\* reader.pages raises, or the file gives its pages
PdfFiles(p) ==
  {[opens |-> FALSE, iterates |-> FALSE, pages |-> <<>>],
   [opens |-> TRUE, iterates |-> FALSE, pages |-> <<>>]}
  \cup {[opens |-> TRUE, iterates |-> TRUE, pages |-> ps] : ps \in SeqsUpTo(PageOutcomes, p)}

RECURSIVE PdfPaths(_)
\* sorted(knowledge_dir.glob("*.pdf")) for directories of at most size files
\* and pages together
PdfPaths(size) ==
  IF size < 1 THEN {<<>>}
  ELSE {<<>>} \cup
       UNION {{<<f>> \o rest : rest \in PdfPaths(size - 1 - Len(f.pages))} :
              f \in PdfFiles(size - 1)}

\* knowledge/: missing (or not a directory), or the sorted *.pdf paths
KnowledgeDirs ==
  {[exists |-> FALSE, files |-> <<>>]}
  \cup {[exists |-> TRUE, files |-> fs] : fs \in PdfPaths(MaxDirSize)}

VARIABLES
  knowledge,        \* the knowledge/ directory next to the module
  PdfReader,        \* TRUE iff a PdfReader class was imported (not None)
  USE_LLM,          \* RAG_USE_LLM != "0"
  DEBUG,            \* RAG_DEBUG == "1"
  pc,               \* "import" | "indexing" | "ready" | "answered" | "exited"
  exit_code,        \* argument of sys.exit, -1 while the process runs
  stdout,           \* lines printed by fatal_pdf_error
  PAGES, RAW_CHUNKS_TEXT, embeddings, CHUNKS,
  build_resp,       \* what the embedding provider did at index build
  question, tokens, q_embed, scored_chunks, top_chunks, context,
  answer,           \* value returned by answer_question
  raised,           \* exception that left answer_question, or NoException
  stages,           \* stages of the query path entered, in order
  calls,            \* provider calls made for the query, in order
  stderr,           \* lines the query printed to sys.stderr
  embed_resp,       \* what the embedding provider did for the query
  gen_resp,         \* what the generation provider did for the query
  called,           \* the function called on its own, or NotCalled
  text_in,          \* argument text of normalize_text and chunk_text
  max_chars_in,     \* argument max_chars of chunk_text
  normalized_out,   \* value returned by normalize_text
  chunks_out,       \* value returned by chunk_text
  vec_a, vec_b,     \* arguments a and b of cosine
  sim_out,          \* value returned by cosine
  USE_HUMAN_INPUT,  \* lichess_runner: LICHESS_HUMAN_USER or HUMAN_USER is "1"
  closable,         \* lichess_runner: the session has a callable close
  rpc,              \* lichess_runner: position in main, "idle" when it does not run
  max_turns, turn, conversation_history, next_user_input, final_turn, stop_reason,
  agent_reply,      \* lichess_runner: the locals of main
  session,          \* "none" | "open" | "closed"
  pending,          \* the exception that is leaving main, or NoException
  events,           \* agent calls and replies, simulator calls, saves and closes, in order
  saved             \* the histories written by save_history, in order

configVars == <<knowledge, PdfReader, USE_LLM, DEBUG>>
startupVars == <<pc, exit_code, stdout, PAGES, RAW_CHUNKS_TEXT, embeddings, CHUNKS, build_resp>>
queryVars == <<question, tokens, q_embed, scored_chunks, top_chunks, context, answer, raised,
               stages, calls, stderr, embed_resp, gen_resp>>
callVars == <<called, text_in, max_chars_in, normalized_out, chunks_out, vec_a, vec_b, sim_out>>
runnerVars == <<USE_HUMAN_INPUT, closable, rpc, max_turns, turn, conversation_history,
                next_user_input, final_turn, stop_reason, agent_reply, session, pending,
                events, saved>>
vars == <<configVars, startupVars, queryVars, callVars, runnerVars>>

(***************************************************************************)
(* load_documents                                                          *)
(***************************************************************************)
\* the pages of one readable file, in page order
FilePages(doc, file) ==
  LET raw(i) == IF file.pages[i].kind = "text" THEN file.pages[i].text ELSE <<>>
      all == [i \in DOMAIN file.pages |->
                [document |-> doc, page_number |-> i,
                 text |-> normalize_text(raw(i)),
                 tokens |-> tokenize(normalize_text(raw(i)))]]
  IN SelectSeqBy(all, {i \in DOMAIN all : all[i].text # <<>>})

RECURSIVE LoadLoop_skip_unparseable(_, _, _)
\* the loop going on to the next file when one cannot be parsed
LoadLoop_skip_unparseable(files, doc, pages) ==
  IF doc > Len(files) THEN [fatal |-> FALSE, pages |-> pages]
  ELSE IF ~files[doc].opens \/ ~files[doc].iterates
       THEN LoadLoop_skip_unparseable(files, doc + 1, pages)
  ELSE LoadLoop_skip_unparseable(files, doc + 1, pages \o FilePages(doc, files[doc]))

RECURSIVE LoadLoop(_, _, _)
\* the for loop over pdf_paths: fatal at the first file that fails
LoadLoop(files, doc, pages) ==
  IF doc > Len(files) THEN [fatal |-> FALSE, pages |-> pages]
  ELSE IF ~files[doc].opens \/ ~files[doc].iterates THEN [fatal |-> TRUE, pages |-> <<>>]
  ELSE LoadLoop(files, doc + 1, pages \o FilePages(doc, files[doc]))

\* load_documents without the final "if not pages" test
load_documents_no_empty_check(dir, reader) ==
  IF ~dir.exists THEN [fatal |-> TRUE, pages |-> <<>>]
  ELSE IF ~reader THEN [fatal |-> TRUE, pages |-> <<>>]
  ELSE IF dir.files = <<>> THEN [fatal |-> TRUE, pages |-> <<>>]
  ELSE LoadLoop(dir.files, 1, <<>>)

load_documents(dir, reader) ==
  IF ~dir.exists THEN [fatal |-> TRUE, pages |-> <<>>]
  ELSE IF ~reader THEN [fatal |-> TRUE, pages |-> <<>>]
  ELSE IF dir.files = <<>> THEN [fatal |-> TRUE, pages |-> <<>>]
  ELSE LET loaded == LoadLoop(dir.files, 1, <<>>)
       IN IF loaded.fatal THEN loaded
          ELSE IF loaded.pages = <<>> THEN [fatal |-> TRUE, pages |-> <<>>]
          ELSE loaded

RECURSIVE RawChunks(_)
\* the loop filling RAW_CHUNKS_TEXT
RawChunks(pages) ==
  IF pages = <<>> THEN <<>>
  ELSE LET page == Head(pages)
           cs == chunk_text(page.text, MAX_CHARS_PER_CHUNK)
       IN [i \in DOMAIN cs |-> [document |-> page.document, text |-> cs[i],
                                page_number |-> page.page_number]]
          \o RawChunks(Tail(pages))

\* CHUNKS built by zip() alone, without the test of line 226
BuildChunks_zip(raw, embs) ==
  LET n == IF Len(embs) < Len(raw) THEN Len(embs) ELSE Len(raw)
  IN [i \in 1..n |-> [document |-> raw[i].document, page_number |-> raw[i].page_number,
                      text |-> raw[i].text, embedding |-> embs[i]]]

\* CHUNKS from RAW_CHUNKS_TEXT and the result of embed_texts
BuildChunks(raw, embs) ==
  IF embs = <<>> \/ Len(embs) # Len(raw) THEN <<>>
  ELSE [i \in DOMAIN raw |-> [document |-> raw[i].document, page_number |-> raw[i].page_number,
                              text |-> raw[i].text, embedding |-> embs[i]]]

(***************************************************************************)
(* Ranking and selection                                                   *)
(***************************************************************************)
Reverse(s) == [i \in 1..Len(s) |-> s[Len(s) + 1 - i]]

RECURSIVE RunLen(_, _, _)
\* the length of the run that starts the list, n of it counted so far: it
\* goes on while each score is < the one before it (descending) or while
\* none is
RunLen(s, n, descending) ==
  IF n < Len(s) /\ ScoreLT(s[n + 1].score, s[n].score) = descending
  THEN RunLen(s, n + 1, descending)
  ELSE n

\* count_run of list.sort
count_run(s) ==
  IF Len(s) < 2 THEN [n |-> Len(s), descending |-> FALSE]
  ELSE LET descending == ScoreLT(s[2].score, s[1].score)
       IN [n |-> RunLen(s, 2, descending), descending |-> descending]

RECURSIVE BinarySearch(_, _, _, _)
\* the place of pivot in the sorted s[l..r-1]: after every element that it
\* is not < of
BinarySearch(s, pivot, l, r) ==
  IF l >= r THEN l
  ELSE LET p == l + ((r - l) \div 2)
       IN IF ScoreLT(pivot.score, s[p].score) THEN BinarySearch(s, pivot, l, p)
          ELSE BinarySearch(s, pivot, p + 1, r)

RECURSIVE binarysort(_, _)
\* binarysort of list.sort: s[1..start-1] is sorted, the rest is inserted
\* one by one
binarysort(s, start) ==
  IF start > Len(s) THEN s
  ELSE LET l == BinarySearch(s, s[start], 1, start)
       IN binarysort(SubSeq(s, 1, l - 1) \o <<s[start]>> \o SubSeq(s, l, start - 1)
                       \o SubSeq(s, start + 1, Len(s)),
                     start + 1)

\* list.sort(key=score, reverse=True) on a list of less than 64 elements:
\* the list is reversed, its first run is found (and reversed if descending),
\* the rest is inserted by binarysort, and the result is reversed.  It
\* compares with < alone; equal scores keep their order.
SortDesc(s) ==
  LET rev == Reverse(s)
      run == count_run(rev)
      head == SubSeq(rev, 1, run.n)
      runs == (IF run.descending THEN Reverse(head) ELSE head)
                \o SubSeq(rev, run.n + 1, Len(rev))
  IN Reverse(binarysort(runs, run.n + 1))

Rank(q_vec, chunks) ==
  SortDesc([i \in DOMAIN chunks |-> [score |-> cosine(q_vec, chunks[i].embedding),
                                     chunk |-> chunks[i]]])

\* the slice left out
FirstK_all(s) == s

\* scored_chunks[:TOP_K]
FirstK(s) == SubSeq(s, 1, IF Len(s) < TOP_K THEN Len(s) ELSE TOP_K)

\* the filter written "score >= 0"
SelectTop_nonnegative(scored) ==
  LET head == FirstK(scored)
      kept == SelectSeqBy(head, {i \in DOMAIN head : head[i].score.num >= 0})
  IN [i \in DOMAIN kept |-> kept[i].chunk]

SelectTop(scored) ==
  LET head == FirstK(scored)
      kept == SelectSeqBy(head, {i \in DOMAIN head : ScorePositive(head[i].score)})
  IN [i \in DOMAIN kept |-> kept[i].chunk]

\* context_parts: the header fields and the text of each selected chunk
Context(top) ==
  [i \in DOMAIN top |-> [document |-> top[i].document, page_number |-> top[i].page_number,
                         text |-> top[i].text]]

(***************************************************************************)
(* Initial state: the process before rag_agent is imported.                *)
(***************************************************************************)
QueryIdle ==
  /\ question = <<>> /\ tokens = <<>> /\ q_embed = <<>>
  /\ scored_chunks = <<>> /\ top_chunks = <<>> /\ context = <<>>
  /\ answer = NoAnswer /\ raised = NoException
  /\ stages = <<>> /\ calls = <<>> /\ stderr = <<>>
  /\ embed_resp = NoCall /\ gen_resp = NoCall

\* no function has been called on its own
NotCalled == "none"

CallIdle ==
  /\ called = NotCalled
  /\ text_in = <<>> /\ max_chars_in = 0 /\ normalized_out = <<>> /\ chunks_out = <<>>
  /\ vec_a = <<>> /\ vec_b = <<>> /\ sim_out = ZeroScore

\* Python's None where a str may stand
None == "None"

\* lichess_runner.main does not run
RunnerIdle ==
  /\ USE_HUMAN_INPUT = FALSE /\ closable = TRUE /\ rpc = "idle"
  /\ max_turns = 0 /\ turn = 0 /\ conversation_history = <<>>
  /\ next_user_input = None /\ final_turn = FALSE /\ stop_reason = None
  /\ agent_reply = None /\ session = "none" /\ pending = NoException
  /\ events = <<>> /\ saved = <<>>

Init ==
  /\ knowledge \in KnowledgeDirs
  /\ PdfReader \in BOOLEAN
  /\ USE_LLM \in BOOLEAN
  /\ DEBUG = FALSE
  /\ pc = "import" /\ exit_code = -1 /\ stdout = <<>>
  /\ PAGES = <<>> /\ RAW_CHUNKS_TEXT = <<>> /\ embeddings = <<>> /\ CHUNKS = <<>>
  /\ build_resp = NoCall
  /\ QueryIdle
  /\ CallIdle
  /\ RunnerIdle

(***************************************************************************)
(* Import of rag_agent: lines 218-222, then 224-231.                       *)
(***************************************************************************)
\* PAGES = load_documents() and the RAW_CHUNKS_TEXT loop; fatal_pdf_error
\* prints the message and leaves the process with sys.exit(1)
LoadPages ==
  /\ pc = "import"
  /\ LET loaded == load_documents(knowledge, PdfReader)
     IN IF loaded.fatal
        THEN /\ pc' = "exited" /\ exit_code' = 1
             /\ stdout' = Append(stdout, PDF_ERROR_MESSAGE)
             /\ UNCHANGED <<PAGES, RAW_CHUNKS_TEXT>>
        ELSE /\ pc' = "indexing"
             /\ PAGES' = loaded.pages
             /\ RAW_CHUNKS_TEXT' = RawChunks(loaded.pages)
             /\ UNCHANGED <<exit_code, stdout>>
  /\ UNCHANGED <<embeddings, CHUNKS, build_resp, configVars, queryVars, callVars, runnerVars>>

\* embeddings = embed_texts(...) and the construction of CHUNKS
BuildIndex ==
  /\ pc = "indexing"
  /\ LET texts == [i \in DOMAIN RAW_CHUNKS_TEXT |-> RAW_CHUNKS_TEXT[i].text]
     IN \E resp \in (IF embed_calls_provider(texts) THEN EmbedResponses(Len(texts)) ELSE {NoCall}) :
          /\ build_resp' = resp
          /\ embeddings' = embed_texts(texts, resp)
          /\ CHUNKS' = BuildChunks(RAW_CHUNKS_TEXT, embed_texts(texts, resp))
  /\ pc' = "ready"
  /\ UNCHANGED <<exit_code, stdout, PAGES, RAW_CHUNKS_TEXT, configVars, queryVars, callVars, runnerVars>>

(***************************************************************************)
(* answer_question                                                         *)
(***************************************************************************)
QuestionChars == {"A", " ", "x"}
Questions == SeqsUpTo(QuestionChars, MaxQLen)

\* a test left out
IndexEmpty_never(chunks) == FALSE
EmbedFailed_never(qe) == FALSE

\* the four tests that return the refusal
NoTokens(tk) == tk = <<>>
IndexEmpty(chunks) == chunks = <<>>
EmbedFailed(qe) == qe = <<>>
NothingRelevant(top) == top = <<>>

\* round(s, 3): the nearest multiple of 1/1000, ties to even
Round3(s) ==
  IF IsNaN(s) THEN s ELSE
  LET n == Abs(s.num) * 1000
      q == n \div s.den
      r == n % s.den
      up == 2 * r > s.den \/ (2 * r = s.den /\ q % 2 = 1)
  IN Score(Sgn(s.num) * (IF up THEN q + 1 ELSE q), 1000)

\* one line printed to sys.stderr
DebugLine(label, tk, preview) == [label |-> label, tokens |-> tk, preview |-> preview]

\* lines 284-286: the tokens, and the first TOP_K of the ranking as
\* (round(score, 3), document, page number)
DebugLines(tk, sc) ==
  LET head == FirstK(sc)
  IN << DebugLine("tokens", tk, <<>>),
        DebugLine("top_chunks", <<>>,
                  [i \in DOMAIN head |-> [score |-> Round3(head[i].score),
                                          document |-> head[i].chunk.document,
                                          page_number |-> head[i].chunk.page_number]]) >>

\* line 293
LLMDisabledLine == DebugLine("LLM disabled; returning snippet only", <<>>, <<>>)

\* the context returned when debugging is on, whatever USE_LLM
BypassGenerate_when_debug(use_llm, debug) == ~use_llm \/ debug

\* line 291: the context is returned as it is
BypassGenerate(use_llm, debug) == ~use_llm

\* what a call of answer_question did: the provider responses it consumed,
\* its locals, its return value or exception, the stages entered, the
\* provider calls made and the lines printed to sys.stderr
Outcome(er, tk, qe, sc, top, ctx, gr, ans, rs, st, cl, err) ==
  [embed_resp |-> er, tokens |-> tk, q_embed |-> qe, scored_chunks |-> sc,
   top_chunks |-> top, context |-> ctx, gen_resp |-> gr, answer |-> ans, raised |-> rs,
   stages |-> st, calls |-> cl, stderr |-> err]

\* lines 273-296 with "if not USE_LLM: return context" ahead of the test of
\* line 280
RankAndAnswer_bypass_first(qn, tk, er, qe, index, use_llm, debug, gr) ==
  LET sc == Rank(qe[1], index)
      top == SelectTop(sc)
      ctx == Context(top)
  IN IF BypassGenerate(use_llm, debug)
     THEN Outcome(er, tk, qe, sc, top, ctx, NoCall, Joined(ctx), NoException,
                  <<"TOKENIZE", "EMBED_QUERY", "RANK", "SELECT">>, <<"embed">>,
                  IF debug THEN <<LLMDisabledLine>> ELSE <<>>)
     ELSE IF NothingRelevant(top)
     THEN Outcome(er, tk, qe, sc, top, <<>>, NoCall, REFUSAL, NoException,
                  <<"TOKENIZE", "EMBED_QUERY", "RANK">>, <<"embed">>, <<>>)
     ELSE LET g == generate_answer(qn, ctx, gr)
          IN Outcome(er, tk, qe, sc, top, ctx, gr, g.answer, g.raised,
                     <<"TOKENIZE", "EMBED_QUERY", "RANK", "SELECT", "GENERATE">>,
                     <<"embed", "generate">>,
                     IF debug THEN DebugLines(tk, sc) ELSE <<>>)

\* lines 273-296: rank, select, build the context, generate; er and gr are
\* what the providers do if they are called
RankAndAnswer(qn, tk, er, qe, index, use_llm, debug, gr) ==
  LET sc == Rank(qe[1], index)
      top == SelectTop(sc)
      ctx == Context(top)
      dbg == IF debug THEN DebugLines(tk, sc) ELSE <<>>
  IN IF NothingRelevant(top)
     THEN Outcome(er, tk, qe, sc, top, <<>>, NoCall, REFUSAL, NoException,
                  <<"TOKENIZE", "EMBED_QUERY", "RANK">>, <<"embed">>, <<>>)
     ELSE IF BypassGenerate(use_llm, debug)
     THEN Outcome(er, tk, qe, sc, top, ctx, NoCall, Joined(ctx), NoException,
                  <<"TOKENIZE", "EMBED_QUERY", "RANK", "SELECT">>, <<"embed">>,
                  IF debug THEN Append(dbg, LLMDisabledLine) ELSE dbg)
     ELSE LET g == generate_answer(qn, ctx, gr)
          IN Outcome(er, tk, qe, sc, top, ctx, gr, g.answer, g.raised,
                     <<"TOKENIZE", "EMBED_QUERY", "RANK", "SELECT", "GENERATE">>,
                     <<"embed", "generate">>, dbg)

\* answer_question with a second embedding call after a failed one
AnswerQuestion_retry_embed(qn, index, use_llm, debug, er, gr) ==
  LET tk == tokenize(qn)
  IN IF NoTokens(tk) \/ IndexEmpty(index)
     THEN Outcome(NoCall, tk, <<>>, <<>>, <<>>, <<>>, NoCall, REFUSAL, NoException,
                  <<"TOKENIZE">>, <<>>, <<>>)
     ELSE LET qe == embed_texts(<<qn>>, er)
          IN IF EmbedFailed(qe)
             THEN Outcome(er, tk, qe, <<>>, <<>>, <<>>, NoCall, REFUSAL, NoException,
                          <<"TOKENIZE", "EMBED_QUERY", "EMBED_QUERY">>,
                          <<"embed", "embed">>, <<>>)
             ELSE RankAndAnswer(qn, tk, er, qe, index, use_llm, debug, gr)

\* answer_question(qn) over the index, under the two switches
AnswerQuestion(qn, index, use_llm, debug, er, gr) ==
  LET tk == tokenize(qn)
  IN IF NoTokens(tk) \/ IndexEmpty(index)
     THEN Outcome(NoCall, tk, <<>>, <<>>, <<>>, <<>>, NoCall, REFUSAL, NoException,
                  <<"TOKENIZE">>, <<>>, <<>>)
     ELSE LET qe == embed_texts(<<qn>>, er)
          IN IF EmbedFailed(qe)
             THEN Outcome(er, tk, qe, <<>>, <<>>, <<>>, NoCall, REFUSAL, NoException,
                          <<"TOKENIZE", "EMBED_QUERY">>, <<"embed">>, <<>>)
             ELSE IF qe = <<>>
             THEN \* q_embed[0] on an empty list
                  Outcome(er, tk, qe, <<>>, <<>>, <<>>, NoCall, NoAnswer, "IndexError",
                          <<"TOKENIZE", "EMBED_QUERY">>, <<"embed">>, <<>>)
             ELSE RankAndAnswer(qn, tk, er, qe, index, use_llm, debug, gr)

\* the call gets to the embedding provider
CallsEmbed(qn, index) == ~(NoTokens(tokenize(qn)) \/ IndexEmpty(index))

\* the call gets to the generation provider
CallsGenerate(out) == Len(out.calls) > 1

\* CHUNKS sorted in place by the ranking
IndexAfterQuery_sorted(index, out) ==
  IF out.scored_chunks = <<>> THEN index
  ELSE [i \in DOMAIN out.scored_chunks |-> out.scored_chunks[i].chunk]

\* CHUNKS emptied when the question could not be embedded, as lines 226-228
\* do at the index build
IndexAfterQuery_cleared_on_failure(index, out) ==
  IF out.calls # <<>> /\ out.q_embed = <<>> THEN <<>> ELSE index

\* CHUNKS after a call: answer_question reads it (lines 265, 274) and sorts
\* its own list scored_chunks (line 277)
IndexAfterQuery(index, out) == index

\* answer_question returns (or raises): its locals and what it did
Returned(qn, out) ==
  /\ question' = qn /\ tokens' = out.tokens
  /\ embed_resp' = out.embed_resp /\ q_embed' = out.q_embed
  /\ scored_chunks' = out.scored_chunks /\ top_chunks' = out.top_chunks
  /\ context' = out.context
  /\ gen_resp' = out.gen_resp /\ answer' = out.answer /\ raised' = out.raised
  /\ stages' = out.stages /\ calls' = out.calls /\ stderr' = out.stderr
  /\ CHUNKS' = IndexAfterQuery(CHUNKS, out)

\* the responses of the providers are inputs of the call: one is drawn for
\* each provider the call gets to
answer_question ==
  /\ pc = "ready"
  /\ \E qn \in Questions :
       \E er \in (IF CallsEmbed(qn, CHUNKS) THEN EmbedResponses(1) ELSE {NoCall}) :
         \E dry \in {AnswerQuestion(qn, CHUNKS, USE_LLM, DEBUG, er, NoCall)} :
           IF ~CallsGenerate(dry) THEN Returned(qn, dry)
           ELSE \E gr \in GenResponses :
                  \E out \in {AnswerQuestion(qn, CHUNKS, USE_LLM, DEBUG, er, gr)} :
                    Returned(qn, out)
  /\ pc' = "answered"
  /\ UNCHANGED <<exit_code, stdout, PAGES, RAW_CHUNKS_TEXT, embeddings, build_resp,
                 configVars, callVars, runnerVars>>

\* the caller takes the answer; the locals of the call are gone and the
\* module is ready for the next call
next_question ==
  /\ pc = "answered"
  /\ pc' = "ready"
  /\ question' = <<>> /\ tokens' = <<>> /\ q_embed' = <<>>
  /\ scored_chunks' = <<>> /\ top_chunks' = <<>> /\ context' = <<>>
  /\ answer' = NoAnswer /\ raised' = NoException
  /\ stages' = <<>> /\ calls' = <<>> /\ stderr' = <<>>
  /\ embed_resp' = NoCall /\ gen_resp' = NoCall
  /\ UNCHANGED <<exit_code, stdout, PAGES, RAW_CHUNKS_TEXT, embeddings, CHUNKS, build_resp,
                 configVars, callVars, runnerVars>>

Next == LoadPages \/ BuildIndex \/ answer_question \/ next_question

Spec == Init /\ [][Next]_vars

(***************************************************************************)
(* The query path alone: the process right after the import of a           *)
(* knowledge/ that holds one pdf of up to MaxChunks pages of text, for     *)
(* every outcome of the embedding call of the index build.                 *)
(***************************************************************************)
OneDocument(n) ==
  [exists |-> TRUE,
   files |-> <<[opens |-> TRUE, iterates |-> TRUE,
                pages |-> [i \in 1..n |-> [kind |-> "text", text |-> SampleText]]]>>]

InitQuery ==
  /\ knowledge \in {OneDocument(n) : n \in 1..MaxChunks}
  /\ PdfReader = TRUE
  /\ USE_LLM \in BOOLEAN
  /\ DEBUG = FALSE
  /\ pc = "ready" /\ exit_code = -1 /\ stdout = <<>>
  /\ PAGES = load_documents(knowledge, PdfReader).pages
  /\ RAW_CHUNKS_TEXT = RawChunks(PAGES)
  /\ build_resp \in EmbedResponses(Len(RAW_CHUNKS_TEXT))
  /\ embeddings = embed_texts([i \in DOMAIN RAW_CHUNKS_TEXT |-> RAW_CHUNKS_TEXT[i].text],
                              build_resp)
  /\ CHUNKS = BuildChunks(RAW_CHUNKS_TEXT, embeddings)
  /\ QueryIdle
  /\ CallIdle
  /\ RunnerIdle

NextQuery == answer_question \/ next_question

SpecQuery == InitQuery /\ [][NextQuery]_vars

(***************************************************************************)
(* The query path under both switches: the process right after the import  *)
(* of one pdf of up to MaxChunks pages whose chunks were embedded with     *)
(* vectors of IndexVecs, one of them with a nan component, or whose index  *)
(* build failed; RAG_USE_LLM and                                           *)
(* RAG_DEBUG are set either way.  (Spec and SpecQuery run with RAG_DEBUG   *)
(* unset.)                                                                 *)
(***************************************************************************)
IndexVecs == { <<1, 0>>, <<1, 1>>, <<nan, 0>> }

InitSession ==
  /\ knowledge \in {OneDocument(n) : n \in 1..MaxChunks}
  /\ PdfReader = TRUE
  /\ USE_LLM \in BOOLEAN
  /\ DEBUG \in BOOLEAN
  /\ pc = "ready" /\ exit_code = -1 /\ stdout = <<>>
  /\ PAGES = load_documents(knowledge, PdfReader).pages
  /\ RAW_CHUNKS_TEXT = RawChunks(PAGES)
  /\ build_resp \in {[kind |-> "raise", data |-> <<>>]}
                    \cup {[kind |-> "data", data |-> d] :
                            d \in [1..Len(RAW_CHUNKS_TEXT) -> IndexVecs]}
  /\ embeddings = embed_texts([i \in DOMAIN RAW_CHUNKS_TEXT |-> RAW_CHUNKS_TEXT[i].text],
                              build_resp)
  /\ CHUNKS = BuildChunks(RAW_CHUNKS_TEXT, embeddings)
  /\ QueryIdle
  /\ CallIdle
  /\ RunnerIdle

NextSession == answer_question \/ next_question

SpecSession == InitSession /\ [][NextSession]_vars

(***************************************************************************)
(* The text functions on their own: normalize_text and chunk_text called   *)
(* on texts of up to MaxTextLen characters, in the imported module.        *)
(***************************************************************************)
\* sentences of "a" and "." between spaces, and "." between spaces and
\* newlines
Texts == SeqsUpTo({"a", ".", " "}, MaxTextLen) \cup SeqsUpTo({".", " ", "\n"}, MaxTextLen)

\* the module after the import of a one-page document
Imported ==
  /\ knowledge = OneDocument(1)
  /\ PdfReader = TRUE
  /\ USE_LLM = TRUE
  /\ DEBUG = FALSE
  /\ pc = "ready" /\ exit_code = -1 /\ stdout = <<>>
  /\ PAGES = load_documents(knowledge, PdfReader).pages
  /\ RAW_CHUNKS_TEXT = RawChunks(PAGES)
  /\ build_resp = [kind |-> "data", data |-> <<Filler>>]
  /\ embeddings = embed_texts([i \in DOMAIN RAW_CHUNKS_TEXT |-> RAW_CHUNKS_TEXT[i].text],
                              build_resp)
  /\ CHUNKS = BuildChunks(RAW_CHUNKS_TEXT, embeddings)
  /\ QueryIdle
  /\ RunnerIdle

InitText ==
  /\ Imported
  /\ called = NotCalled
  /\ text_in \in Texts
  /\ max_chars_in = 0 /\ normalized_out = <<>> /\ chunks_out = <<>>
  /\ vec_a = <<>> /\ vec_b = <<>> /\ sim_out = ZeroScore

call_normalize_text ==
  /\ called = NotCalled
  /\ called' = "normalize_text"
  /\ normalized_out' = normalize_text(text_in)
  /\ UNCHANGED <<text_in, max_chars_in, chunks_out, vec_a, vec_b, sim_out,
                 configVars, startupVars, queryVars, runnerVars>>

call_chunk_text ==
  /\ called = NotCalled
  /\ called' = "chunk_text"
  /\ \E m \in 1..MaxMaxChars :
       /\ max_chars_in' = m
       /\ chunks_out' = chunk_text(text_in, m)
  /\ UNCHANGED <<text_in, normalized_out, vec_a, vec_b, sim_out,
                 configVars, startupVars, queryVars, runnerVars>>

NextText == call_normalize_text \/ call_chunk_text

SpecText == InitText /\ [][NextText]_vars

(***************************************************************************)
(* cosine on its own, on any two vectors over {-1, 0, 1} of up to          *)
(* MaxVecLen components.                                                   *)
(***************************************************************************)
VecInputs == SeqsUpTo({-1, 0, 1}, MaxVecLen)

InitCosine ==
  /\ Imported
  /\ called = NotCalled
  /\ text_in = <<>> /\ max_chars_in = 0 /\ normalized_out = <<>> /\ chunks_out = <<>>
  /\ vec_a \in VecInputs /\ vec_b \in VecInputs
  /\ sim_out = ZeroScore

call_cosine ==
  /\ called = NotCalled
  /\ called' = "cosine"
  /\ sim_out' = cosine(vec_a, vec_b)
  /\ UNCHANGED <<text_in, max_chars_in, normalized_out, chunks_out, vec_a, vec_b,
                 configVars, startupVars, queryVars, runnerVars>>

NextCosine == call_cosine

SpecCosine == InitCosine /\ [][NextCosine]_vars

(***************************************************************************)
(* The ranking on its own (lines 273-279): the index of one pdf of up to   *)
(* MaxRanked pages, embedded with vectors of RankVecs, ranked against one  *)
(* query vector.                                                           *)
(***************************************************************************)
\* against RankQuery these score 1.0, 0.0, 0.707 and nan
RankVecs == { <<1, 0>>, <<0, 1>>, <<1, 1>>, <<nan, 0>> }

RankQuery == <<1, 0>>

InitRank ==
  /\ knowledge \in {OneDocument(n) : n \in 1..MaxRanked}
  /\ PdfReader = TRUE
  /\ USE_LLM = TRUE
  /\ DEBUG = FALSE
  /\ pc = "ready" /\ exit_code = -1 /\ stdout = <<>>
  /\ PAGES = load_documents(knowledge, PdfReader).pages
  /\ RAW_CHUNKS_TEXT = RawChunks(PAGES)
  /\ build_resp \in {[kind |-> "data", data |-> d] :
                        d \in [1..Len(RAW_CHUNKS_TEXT) -> RankVecs]}
  /\ embeddings = embed_texts([i \in DOMAIN RAW_CHUNKS_TEXT |-> RAW_CHUNKS_TEXT[i].text],
                              build_resp)
  /\ CHUNKS = BuildChunks(RAW_CHUNKS_TEXT, embeddings)
  /\ question = <<>> /\ tokens = <<>> /\ q_embed = <<RankQuery>>
  /\ scored_chunks = <<>> /\ top_chunks = <<>> /\ context = <<>>
  /\ answer = NoAnswer /\ raised = NoException
  /\ stages = <<>> /\ calls = <<>> /\ stderr = <<>>
  /\ embed_resp = NoCall /\ gen_resp = NoCall
  /\ CallIdle
  /\ RunnerIdle

\* lines 273-279 on q_vec = q_embed[0] and CHUNKS
call_rank ==
  /\ called = NotCalled
  /\ called' = "rank"
  /\ scored_chunks' = Rank(q_embed[1], CHUNKS)
  /\ top_chunks' = SelectTop(scored_chunks')
  /\ UNCHANGED <<text_in, max_chars_in, normalized_out, chunks_out, vec_a, vec_b, sim_out,
                 configVars, startupVars, question, tokens, q_embed, context, answer,
                 raised, stages, calls, stderr, embed_resp, gen_resp, runnerVars>>

NextRank == call_rank

SpecRank == InitRank /\ [][NextRank]_vars

(***************************************************************************)
(* lichess_runner.main: the multi-turn loop around the Lichess agent, with *)
(* a human or a simulated user.  The agent, the simulator's completion,    *)
(* input() and the file system are inputs of the steps.  Messages are      *)
(* strings; the timestamps of the history entries are left out.            *)
(***************************************************************************)
AgentText == "Reply"
InitialMessage == "first message"
NoFurtherActions == "No further actions."
RawCompletion == "not json"
MaxTurnsReason == "Reached max turns"
UserEndedSession == "User ended session."

\* str.strip() and str.lower() on the strings of the model
Strip(str) == IF str = "reply " THEN "reply" ELSE IF str = " " THEN "" ELSE str
Lower(str) ==
  IF str = "Reply" THEN "reply" ELSE IF str = "Quit" THEN "quit" ELSE str

\* x or y on Optional[str]
Falsy(x) == x = None \/ x = ""
OrElse(x, y) == IF Falsy(x) THEN y ELSE x

\* Runner.run_sync: a result, or an exception
AgentResults == { [kind |-> "reply", text |-> AgentText], [kind |-> "raise", text |-> ""] }

\* client.chat.completions.create for the simulated user: an exception (or
\* a completion without choices[0].message.content), a content that is not
\* a JSON object with a str message, or a JSON object
Completions ==
  { [kind |-> "raise", message |-> "", cont |-> TRUE, reason |-> None],
    [kind |-> "text", message |-> "", cont |-> TRUE, reason |-> None] }
  \cup { [kind |-> "json", message |-> msg, cont |-> c, reason |-> r] :
           msg \in {"", "go on", "reply "}, c \in BOOLEAN, r \in {None, "", "done"} }

\* lines 78-103 with client set: (msg, cont, reason), or the exception of
\* lines 81-89, which are outside the try
simulate_user_turn(last_agent_reply, completion) ==
  IF completion.kind = "raise"
  THEN [raised |-> "Exception", msg |-> None, cont |-> TRUE, reason |-> None]
  ELSE IF completion.kind = "text"
  THEN [raised |-> NoException, msg |-> RawCompletion, cont |-> TRUE, reason |-> None]
  ELSE LET msg == Strip(completion.message)
           repeats == last_agent_reply # "" /\ Lower(msg) = Lower(Strip(last_agent_reply))
       IN [raised |-> NoException,
           msg |-> IF msg = "" \/ repeats
                   THEN OrElse(completion.reason, NoFurtherActions) ELSE msg,
           cont |-> completion.cont,
           reason |-> completion.reason]

\* input(): a line, or EOFError
HumanLines == {"Hi", "help", " ", "/quit", "Quit"}
HelpWords == {"help", "?", "/help"}
QuitWords == {"/quit", "quit", "exit"}
AsksHelp(line) == Lower(Strip(line)) \in HelpWords
NoInput(line) == Strip(line) = ""
Quits(line) == NoInput(line) \/ Lower(Strip(line)) \in QuitWords

Event(op, content, cont, reason) ==
  [op |-> op, content |-> content, cont |-> cont, reason |-> reason]

\* the loop entered once more at turn == max_turns
LoopTest_inclusive(t, mt, nxt) == t <= mt /\ nxt # None

\* line 174
LoopTest(t, mt, nxt) == t < mt /\ nxt # None

\* lines 187-200
TurnEntries(user_input, reply) ==
  << [role |-> "user", content |-> user_input],
     [role |-> "assistant", content |-> reply] >>

\* the test of max_turns ahead of the test of final_turn
AfterTurn_max_turns_first(ft, t, mt, sr) ==
  IF t >= mt THEN [leave |-> TRUE, stop_reason |-> OrElse(sr, MaxTurnsReason)]
  ELSE IF ft THEN [leave |-> TRUE, stop_reason |-> sr]
  ELSE [leave |-> FALSE, stop_reason |-> sr]

\* lines 202-207: break after the final turn, or at max_turns
AfterTurn(ft, t, mt, sr) ==
  IF ft THEN [leave |-> TRUE, stop_reason |-> sr]
  ELSE IF t >= mt THEN [leave |-> TRUE, stop_reason |-> OrElse(sr, MaxTurnsReason)]
  ELSE [leave |-> FALSE, stop_reason |-> sr]

\* an exception leaves main at once
OnException_no_finally == "exited"

\* where an exception raised inside the try goes: the finally block
OnException == "finally"

\* the exception e is raised inside the try
Raise(e) == pending' = e /\ rpc' = OnException

InitRunner ==
  /\ knowledge = OneDocument(1) /\ PdfReader = TRUE /\ USE_LLM = TRUE /\ DEBUG = FALSE
  /\ pc = "import" /\ exit_code = -1 /\ stdout = <<>>
  /\ PAGES = <<>> /\ RAW_CHUNKS_TEXT = <<>> /\ embeddings = <<>> /\ CHUNKS = <<>>
  /\ build_resp = NoCall
  /\ QueryIdle
  /\ CallIdle
  /\ USE_HUMAN_INPUT \in BOOLEAN /\ closable \in BOOLEAN /\ rpc = "start"
  /\ max_turns = 0 /\ turn = 0 /\ conversation_history = <<>>
  /\ next_user_input = None /\ final_turn = FALSE /\ stop_reason = None
  /\ agent_reply = None /\ session = "none" /\ pending = NoException
  /\ events = <<>> /\ saved = <<>>

\* lines 162-171, after the first message was found
OpenSession(first, mt) ==
  /\ max_turns' = mt
  /\ session' = "open"
  /\ events' = <<Event("session", None, TRUE, None)>>
  /\ turn' = 0 /\ conversation_history' = <<>>
  /\ next_user_input' = first
  /\ final_turn' = FALSE /\ stop_reason' = None
  /\ rpc' = "while"
  /\ UNCHANGED pending

\* main leaves before the loop: no input, no scenario, MAX_TURNS that int()
\* rejects, EOFError of input(), or SQLiteSession raising
LeaveEarly(e) ==
  /\ rpc' = "exited" /\ pending' = e
  /\ UNCHANGED <<max_turns, session, events, turn, conversation_history, next_user_input,
                 final_turn, stop_reason>>

\* lines 138-171
setup ==
  /\ rpc = "start"
  /\ \/ LeaveEarly("Exception")
     \/ /\ USE_HUMAN_INPUT
        /\ \E l1 \in HumanLines, l2 \in HumanLines, mt \in (-1)..MaxTurns :
             LET first == IF AsksHelp(l1) THEN l2 ELSE l1
             IN IF NoInput(first) THEN LeaveEarly(NoException) ELSE OpenSession(first, mt)
     \/ /\ ~USE_HUMAN_INPUT
        /\ \E has_scenario \in BOOLEAN, mt \in (-1)..MaxTurns :
             IF has_scenario THEN OpenSession(InitialMessage, mt)
             ELSE LeaveEarly(NoException)
  /\ UNCHANGED <<USE_HUMAN_INPUT, closable, agent_reply, saved,
                 configVars, startupVars, queryVars, callVars>>

\* line 174
loop_test ==
  /\ rpc = "while"
  /\ rpc' = IF LoopTest(turn, max_turns, next_user_input) THEN "turn" ELSE "finally"
  /\ UNCHANGED <<USE_HUMAN_INPUT, closable, max_turns, turn, conversation_history,
                 next_user_input, final_turn, stop_reason, agent_reply, session, pending,
                 events, saved, configVars, startupVars, queryVars, callVars>>

\* lines 175-207: the agent is run on the message, and the two entries are
\* appended if it returns
run_turn ==
  /\ rpc = "turn"
  /\ turn' = turn + 1
  /\ \E res \in AgentResults :
       IF res.kind = "raise"
       THEN /\ events' = Append(events, Event("agent", next_user_input, TRUE, None))
            /\ Raise("Exception")
            /\ UNCHANGED <<conversation_history, stop_reason, agent_reply>>
       ELSE LET after == AfterTurn(final_turn, turn', max_turns, stop_reason)
            IN /\ events' = events \o << Event("agent", next_user_input, TRUE, None),
                                         Event("reply", res.text, TRUE, None) >>
               /\ agent_reply' = res.text
               /\ conversation_history' =
                    conversation_history \o TurnEntries(next_user_input, res.text)
               /\ stop_reason' = after.stop_reason
               /\ rpc' = IF after.leave THEN "finally" ELSE "input"
               /\ UNCHANGED pending
  /\ UNCHANGED <<USE_HUMAN_INPUT, closable, max_turns, next_user_input, final_turn,
                 session, saved, configVars, startupVars, queryVars, callVars>>

\* lines 209-226: the next message, from input() or from the simulator
next_input ==
  /\ rpc = "input"
  /\ IF USE_HUMAN_INPUT
     THEN \/ /\ Raise("EOFError")
             /\ UNCHANGED <<next_user_input, stop_reason, events, final_turn>>
          \/ \E l1 \in HumanLines, l2 \in HumanLines :
               LET line == IF AsksHelp(l1) THEN l2 ELSE l1
               IN /\ next_user_input' = line
                  /\ IF Quits(line)
                     THEN /\ stop_reason' = OrElse(stop_reason, UserEndedSession)
                          /\ rpc' = "finally"
                     ELSE /\ rpc' = "while"
                          /\ UNCHANGED stop_reason
                  /\ UNCHANGED <<pending, events, final_turn>>
     ELSE \E completion \in Completions :
            LET r == simulate_user_turn(agent_reply, completion)
            IN IF r.raised # NoException
               THEN /\ events' = Append(events, Event("simulate", None, TRUE, None))
                    /\ Raise(r.raised)
                    /\ UNCHANGED <<next_user_input, stop_reason, final_turn>>
               ELSE /\ events' = Append(events, Event("simulate", r.msg, r.cont, r.reason))
                    /\ next_user_input' = r.msg
                    /\ final_turn' = (IF r.cont THEN final_turn ELSE TRUE)
                    /\ stop_reason' = (IF r.cont THEN stop_reason ELSE r.reason)
                    /\ rpc' = "while"
                    /\ UNCHANGED pending
  /\ UNCHANGED <<USE_HUMAN_INPUT, closable, max_turns, turn, conversation_history,
                 agent_reply, session, saved, configVars, startupVars, queryVars, callVars>>

\* lines 228-236: save_history writes the file, or raises
save ==
  /\ rpc = "finally"
  /\ events' = Append(events, Event("save", OrElse(stop_reason, ""), TRUE, None))
  /\ \E written \in BOOLEAN :
       IF written
       THEN /\ saved' = Append(saved, conversation_history)
            /\ rpc' = "close"
            /\ UNCHANGED pending
       ELSE /\ pending' = "OSError"
            /\ rpc' = "exited"
            /\ UNCHANGED saved
  /\ UNCHANGED <<USE_HUMAN_INPUT, closable, max_turns, turn, conversation_history,
                 next_user_input, final_turn, stop_reason, agent_reply, session,
                 configVars, startupVars, queryVars, callVars>>

\* lines 237-238
close_session ==
  /\ rpc = "close"
  /\ IF closable
     THEN /\ session' = "closed"
          /\ events' = Append(events, Event("close", None, TRUE, None))
     ELSE UNCHANGED <<session, events>>
  /\ rpc' = "exited"
  /\ UNCHANGED <<USE_HUMAN_INPUT, closable, max_turns, turn, conversation_history,
                 next_user_input, final_turn, stop_reason, agent_reply, pending, saved,
                 configVars, startupVars, queryVars, callVars>>

NextRunner == setup \/ loop_test \/ run_turn \/ next_input \/ save \/ close_session

SpecRunner == InitRunner /\ [][NextRunner]_vars

(***************************************************************************)
(* Properties.                                                             *)
(***************************************************************************)
Called(provider) == \E i \in DOMAIN calls : calls[i] = provider
Entered(stage) == \E i \in DOMAIN stages : stages[i] = stage

\* the question has no alphanumeric run outside the stopword set
ZeroTokenQuestion(q) ==
  LET runs == AlnumRuns(LowerText(q), <<>>)
  IN \A i \in DOMAIN runs : runs[i] \in stopwords

\* the score of a chunk of the index against the query vector in use
ScoreOf(c) == cosine(q_embed[1], c.embedding)

\* C1: a question that tokenizes to zero tokens (empty, whitespace only, or
\* stopwords only) is answered with the fixed refusal string and neither the
\* embedding nor the generation provider is called for it.
C1_ZeroTokensRefused ==
  (pc = "answered" /\ ZeroTokenQuestion(question))
    => /\ answer = REFUSAL /\ raised = NoException
       /\ calls = <<>> /\ embed_resp = NoCall /\ gen_resp = NoCall

\* a stopword-only question was refused over a non-empty index
C1_Witness ==
  pc = "answered" /\ question = <<"A">> /\ CHUNKS # <<>> /\ answer = REFUSAL

\* C2: with an empty Corpus Index every question is answered with the fixed
\* refusal string, before any call of the embedding or generation provider.
C2_EmptyIndexRefused ==
  (pc = "answered" /\ CHUNKS = <<>>)
    => /\ answer = REFUSAL /\ raised = NoException
       /\ calls = <<>> /\ embed_resp = NoCall /\ gen_resp = NoCall

\* a question with a token was refused because the index is empty
C2_Witness ==
  pc = "answered" /\ CHUNKS = <<>> /\ question = <<"x">> /\ answer = REFUSAL

\* C3: when embed_texts returns the empty list for the question, the fixed
\* string is returned and ranking, selection and generation are not entered:
\* nothing is scored and the generation provider is not called.
C3_EmptyEmbeddingRefused ==
  (pc = "answered" /\ Called("embed") /\ q_embed = <<>>)
    => /\ answer = REFUSAL /\ raised = NoException
       /\ stages = <<"TOKENIZE", "EMBED_QUERY">>
       /\ scored_chunks = <<>> /\ top_chunks = <<>>
       /\ ~Called("generate") /\ gen_resp = NoCall

\* the provider raised for the question, over a non-empty index
C3_Witness ==
  /\ pc = "answered" /\ CHUNKS # <<>> /\ embed_resp.kind = "raise"
  /\ q_embed = <<>> /\ answer = REFUSAL

\* C4: the selected chunks number at most TOP_K, each stands among the first
\* TOP_K of the ranking (fewer than TOP_K chunks of the index score strictly
\* higher) and each has a strictly positive score.
C4_SelectionTopKPositive ==
  (pc = "answered" /\ q_embed # <<>>)
    => /\ Len(top_chunks) <= TOP_K
       /\ \A i \in DOMAIN top_chunks :
            /\ ScorePositive(ScoreOf(top_chunks[i]))
            /\ \E j \in DOMAIN CHUNKS : CHUNKS[j] = top_chunks[i]
            /\ \E j \in DOMAIN scored_chunks :
                 j <= TOP_K /\ scored_chunks[j].chunk = top_chunks[i]
            /\ Cardinality({j \in DOMAIN CHUNKS :
                              ScoreGT(ScoreOf(CHUNKS[j]), ScoreOf(top_chunks[i]))}) < TOP_K

\* more chunks than TOP_K, a chunk of the first TOP_K with a score that is not
\* positive was left out, and another was selected
C4_Witness ==
  /\ pc = "answered" /\ Len(CHUNKS) > TOP_K /\ top_chunks # <<>>
  /\ \E j \in 1..TOP_K : ~ScorePositive(scored_chunks[j].score)

\* C5: when no chunk has a positive score (the best score is 0.0 or less),
\* the fixed refusal string is returned and the generation provider is not
\* called.
C5_ZeroBestScoreRefused ==
  (/\ pc = "answered" /\ q_embed # <<>>
   /\ \A j \in DOMAIN CHUNKS : ~ScorePositive(ScoreOf(CHUNKS[j])))
    => /\ answer = REFUSAL /\ top_chunks = <<>>
       /\ ~Called("generate") /\ gen_resp = NoCall

\* the best score of a ranking was exactly zero and the question was refused
C5_Witness ==
  /\ pc = "answered" /\ scored_chunks # <<>> /\ USE_LLM
  /\ scored_chunks[1].score = ZeroScore
  /\ scored_chunks[1].chunk.embedding = <<-1, 1>> /\ q_embed[1] = <<1, 1>>
  /\ answer = REFUSAL

Blank(text) == \A i \in DOMAIN text : text[i] \in WhiteSpace

\* the file cannot be parsed
Unparseable(file) == ~file.opens \/ ~file.iterates

\* the file has no page with text
NoPageText(file) ==
  \A i \in DOMAIN file.pages : file.pages[i].kind # "text" \/ Blank(file.pages[i].text)

\* the directory is missing, holds no pdf, holds no parseable pdf, or every
\* parsed pdf gives no non-empty page
BadSource(dir) ==
  \/ ~dir.exists
  \/ dir.files = <<>>
  \/ \A i \in DOMAIN dir.files : Unparseable(dir.files[i])
  \/ \A i \in DOMAIN dir.files : ~Unparseable(dir.files[i]) /\ NoPageText(dir.files[i])

\* C7: with such a document source the import ends in sys.exit(1) after the
\* error message, and no question is answered in that process.
C7_BadSourceAborts ==
  BadSource(knowledge)
    => /\ pc \in {"import", "exited"}
       /\ (pc = "exited" => exit_code = 1 /\ stdout = <<PDF_ERROR_MESSAGE>>)
       /\ CHUNKS = <<>> /\ answer = NoAnswer /\ calls = <<>>

\* every file was parsed, none had a page with text, and the process exited
C7_Witness ==
  /\ pc = "exited" /\ PdfReader /\ knowledge.exists /\ Len(knowledge.files) > 1
  /\ \A i \in DOMAIN knowledge.files :
       /\ ~Unparseable(knowledge.files[i])
       /\ knowledge.files[i].pages # <<>>
       /\ NoPageText(knowledge.files[i])

\* the embedding call of the index build gave no vector per chunk
BuildFailed ==
  /\ build_resp # NoCall
  /\ build_resp.kind # "data" \/ Len(build_resp.data) # Len(RAW_CHUNKS_TEXT)

\* C8 as stated: when the index build gets no embedded chunk (the provider
\* fails or returns a mismatched number of vectors), startup is aborted and
\* the process never gets to serve a question.
C8_BuildFailureAborts ==
  BuildFailed => pc = "exited"

\* C8 amended: when the index build gets no embedded chunk, the import goes
\* on without exiting, CHUNKS is left empty, and every question is answered
\* with the fixed refusal string without a provider call.
C8_BuildFailureRefusesAll ==
  BuildFailed
    => /\ pc \in {"ready", "answered"} /\ exit_code = -1 /\ stdout = <<>>
       /\ CHUNKS = <<>>
       /\ (pc = "answered" => answer = REFUSAL /\ calls = <<>>)

\* the provider returned one vector too many at the build, and a question
\* with a token was refused afterwards
C8_Witness ==
  /\ pc = "answered" /\ build_resp.kind = "data"
  /\ Len(build_resp.data) = Len(RAW_CHUNKS_TEXT) + 1
  /\ question = <<"x">> /\ answer = REFUSAL

\* C9: after startup, either the index is non-empty and every chunk of it has
\* a non-empty embedding, or the question is answered with the fixed refusal.
C9_IndexEmbeddedOrRefuse ==
  pc = "answered"
    => \/ /\ CHUNKS # <<>>
          /\ \A i \in DOMAIN CHUNKS : CHUNKS[i].embedding # <<>>
       \/ answer = REFUSAL

\* C10: a result of embed_texts that is empty or whose length differs from
\* the number of texts is a failure of the whole batch: at the build no Chunk
\* is made from it, and at query time no vector of it serves the ranking, so
\* that the question is refused.
C10_MisalignedIsTotalFailure ==
  /\ (build_resp.kind = "data" /\ Len(build_resp.data) # Len(RAW_CHUNKS_TEXT)
        => CHUNKS = <<>>)
  /\ (pc = "answered" /\ embed_resp.kind = "data" /\ Len(embed_resp.data) # 1
        => answer = REFUSAL)

\* C11: when a pdf of knowledge/ cannot be parsed (PdfReader(path) raises, or
\* reading reader.pages raises), the import ends in sys.exit(1) after the
\* error message whatever the other files give, before or after it in the
\* sorted order: no page is kept, no index is built, no question answered.
C11_ParseFailureAborts ==
  (/\ knowledge.exists
   /\ \E i \in DOMAIN knowledge.files : Unparseable(knowledge.files[i]))
    => /\ pc \in {"import", "exited"}
       /\ (pc = "exited" => exit_code = 1 /\ stdout = <<PDF_ERROR_MESSAGE>>)
       /\ PAGES = <<>> /\ RAW_CHUNKS_TEXT = <<>> /\ CHUNKS = <<>>
       /\ build_resp = NoCall /\ answer = NoAnswer /\ calls = <<>>

\* the first pdf was parsed and gave a page of text, the second could not be
\* parsed, and the process exited
C11_Witness ==
  /\ pc = "exited" /\ PdfReader /\ Len(knowledge.files) = 2
  /\ ~Unparseable(knowledge.files[1]) /\ ~NoPageText(knowledge.files[1])
  /\ Unparseable(knowledge.files[2])

RECURSIVE Flatten(_)
\* the concatenation of a sequence of sequences
Flatten(ss) == IF ss = <<>> THEN <<>> ELSE Head(ss) \o Flatten(Tail(ss))

\* the sentences read again from each chunk returned
SentencesOf(cs) == [i \in DOMAIN cs |-> split_sentences(cs[i])]

\* C12: the chunks returned by chunk_text partition the sentences of the
\* text: the chunks joined by single spaces read as the sentences of the
\* text, each once and in order, and so do the sentences of the chunks taken
\* one chunk after the other (no sentence is cut between two chunks).
C12_ChunksPartitionSentences ==
  called = "chunk_text"
    => /\ split_sentences(JoinWith(<<" ">>, chunks_out)) = split_sentences(text_in)
       /\ Flatten(SentencesOf(chunks_out)) = split_sentences(text_in)

\* three sentences or more came back in two chunks or more, the last chunk
\* holding two sentences or more
C12_Witness ==
  /\ called = "chunk_text" /\ Len(split_sentences(text_in)) >= 3
  /\ Len(chunks_out) >= 2
  /\ Len(split_sentences(chunks_out[Len(chunks_out)])) >= 2

\* C13: no chunk is empty; a chunk longer than max_chars is one sentence that
\* is itself longer than max_chars; a chunk ends before a sentence exactly
\* when that sentence would take it over max_chars; and the last sentences
\* are flushed as the last chunk.
C13_ChunkSizes ==
  called = "chunk_text"
    => LET sents == SentencesOf(chunks_out)
           all == split_sentences(text_in)
       IN /\ \A i \in DOMAIN chunks_out : chunks_out[i] # <<>>
          /\ \A i \in DOMAIN chunks_out :
               Len(chunks_out[i]) > max_chars_in
                 => Len(sents[i]) = 1 /\ sents[i][1] = chunks_out[i]
          /\ \A i \in DOMAIN chunks_out :
               i < Len(chunks_out)
                 => Len(chunks_out[i]) + 1 + Len(sents[i + 1][1]) > max_chars_in
          /\ (all # <<>>
                => /\ chunks_out # <<>>
                   /\ LET last == sents[Len(sents)]
                      IN last[Len(last)] = all[Len(all)])

\* a chunk of two sentences was flushed before a sentence longer than
\* max_chars, which came back as a chunk of its own
C13_Witness ==
  /\ called = "chunk_text" /\ Len(chunks_out) = 2
  /\ Len(split_sentences(chunks_out[1])) = 2
  /\ Len(chunks_out[1]) <= max_chars_in
  /\ Len(chunks_out[2]) > max_chars_in

\* no two whitespace characters in a row
NoWhiteSpaceRun(s) ==
  \A i \in DOMAIN s : i < Len(s) => ~(s[i] \in WhiteSpace /\ s[i + 1] \in WhiteSpace)

\* C19: normalize_text is idempotent, its result neither starts nor ends
\* with whitespace and has no run of two whitespace characters, and the empty
\* text gives the empty text.
C19_NormalizeIdempotent ==
  called = "normalize_text"
    => /\ normalize_text(normalized_out) = normalized_out
       /\ (normalized_out # <<>>
             => /\ normalized_out[1] \notin WhiteSpace
                /\ normalized_out[Len(normalized_out)] \notin WhiteSpace)
       /\ NoWhiteSpaceRun(normalized_out)
       /\ (text_in = <<>> => normalized_out = <<>>)

\* a text with whitespace at both ends and a run of a space and newlines
\* inside was normalized
C19_Witness ==
  /\ called = "normalize_text"
  /\ text_in = <<"\n", ".", " ", "\n", "\n", ".", " ">>
  /\ normalized_out = <<".", " ", ".">>

\* the floats 1.0 and -1.0
OneScore == [num |-> 1, den |-> 1]
MinusOneScore == [num |-> -1, den |-> 1]

\* every component is zero
ZeroNorm(v) == \A i \in DOMAIN v : v[i] = 0

\* C20: cosine is exactly 0.0 when a vector is empty or has zero norm, the
\* cosine of a non-zero vector with itself is exactly 1.0, and every score
\* lies in [-1, 1].
C20_CosineExact ==
  called = "cosine"
    => /\ (vec_a = <<>> \/ vec_b = <<>> \/ ZeroNorm(vec_a) \/ ZeroNorm(vec_b)
             => sim_out = ZeroScore)
       /\ (vec_a = vec_b /\ ~ZeroNorm(vec_a) => sim_out = OneScore)
       /\ ScoreGE(sim_out, MinusOneScore) /\ ScoreGE(OneScore, sim_out)

\* C14: the ranking holds every chunk of the index with its score, in order
\* of non-increasing score; no chunk left out of the selection scores
\* strictly higher than a selected one; the selected chunks stand in the
\* context in descending order of score, each with its document and page
\* number ahead of its text; and that context is what is returned when the
\* generation is bypassed.
C14_RankedDescending ==
  (pc = "answered" /\ q_embed # <<>>)
    => /\ Len(scored_chunks) = Len(CHUNKS)
       /\ \A i \in DOMAIN scored_chunks :
            /\ scored_chunks[i].chunk \in Range(CHUNKS)
            /\ scored_chunks[i].score = ScoreOf(scored_chunks[i].chunk)
            /\ \A j \in DOMAIN scored_chunks :
                 i < j => ~ScoreGT(scored_chunks[j].score, scored_chunks[i].score)
       /\ \A c \in Range(CHUNKS) \ Range(top_chunks) :
            \A t \in Range(top_chunks) : ~ScoreGT(ScoreOf(c), ScoreOf(t))
       /\ \A i \in DOMAIN top_chunks : \A j \in DOMAIN top_chunks :
            i < j => ~ScoreGT(ScoreOf(top_chunks[j]), ScoreOf(top_chunks[i]))
       /\ (top_chunks # <<>>
             => /\ Len(context) = Len(top_chunks)
                /\ \A i \in DOMAIN top_chunks :
                     /\ context[i].document = top_chunks[i].document
                     /\ context[i].page_number = top_chunks[i].page_number
                     /\ context[i].text = top_chunks[i].text)
       /\ (top_chunks # <<>> /\ ~USE_LLM => answer = Joined(context))

\* two chunks of different scores were selected against their order in the
\* index, a third chunk was left out, and the context was returned
C14_Witness ==
  /\ pc = "answered" /\ ~USE_LLM /\ Len(top_chunks) = 2 /\ Len(CHUNKS) > 2
  /\ ScoreGT(ScoreOf(top_chunks[1]), ScoreOf(top_chunks[2]))
  /\ top_chunks[1].page_number > top_chunks[2].page_number
  /\ answer = Joined(context)

\* the index as the import built it
StartupIndex ==
  LET raw == RawChunks(load_documents(knowledge, PdfReader).pages)
  IN BuildChunks(raw, embed_texts([i \in DOMAIN raw |-> raw[i].text], build_resp))

\* C15: once the import is over, no step changes PAGES, RAW_CHUNKS_TEXT,
\* the embeddings or CHUNKS (content and order), whatever the question and
\* whatever becomes of it: they stay what the import made them.
C15_IndexReadOnly ==
  [][(pc = "ready" \/ pc = "answered")
       => (PAGES' = PAGES /\ RAW_CHUNKS_TEXT' = RAW_CHUNKS_TEXT
             /\ embeddings' = embeddings /\ CHUNKS' = CHUNKS)]_vars

\* a question was answered from a ranking that puts another chunk first than
\* the index does
C15_Witness ==
  /\ pc = "answered" /\ Len(CHUNKS) > 1 /\ scored_chunks # <<>>
  /\ scored_chunks[1].chunk # CHUNKS[1]
  /\ answer # REFUSAL

\* a provider call of the query failed
ProviderFailed ==
  \/ embed_resp.kind \in {"raise", "malformed"}
  \/ gen_resp.kind \in {"raise", "malformed"}

\* C16: nothing of a query is left for the next one: between two calls the
\* locals of the last call are gone, and the answer to a question, the
\* provider calls made for it and the exception raised are those that the
\* same question with the same provider responses gets as the first question
\* after the import.
C16_NoStateAcrossQueries ==
  /\ (pc = "ready" => QueryIdle)
  /\ (pc = "answered"
        => LET first == AnswerQuestion(question, StartupIndex, USE_LLM, DEBUG,
                                       embed_resp, gen_resp)
           IN answer = first.answer /\ calls = first.calls /\ raised = first.raised)

\* the embedding provider raised for a question over a non-empty index, and
\* the index is left as it was for the questions to come
C16_Witness ==
  /\ pc = "answered" /\ ProviderFailed /\ embed_resp.kind = "raise"
  /\ answer = REFUSAL /\ CHUNKS # <<>>

\* C17: with RAG_USE_LLM=0 the call returns the fixed string or the joined
\* context and never gets to the generation provider; and the same question,
\* index and embedding response are refused with RAG_USE_LLM=0 exactly when
\* they are refused before the generation with RAG_USE_LLM=1.
C17_BypassKeepsRefusals ==
  pc = "answered"
    => LET on == AnswerQuestion(question, CHUNKS, FALSE, DEBUG, embed_resp, NoCall)
           off == AnswerQuestion(question, CHUNKS, TRUE, DEBUG, embed_resp, gen_resp)
       IN /\ (~USE_LLM
                => /\ ~Called("generate") /\ gen_resp = NoCall
                   /\ answer \in {REFUSAL, Joined(Context(top_chunks))}
                   /\ (answer = REFUSAL <=> top_chunks = <<>>)
                   /\ (answer = REFUSAL <=> "GENERATE" \notin Range(off.stages)))
          /\ (USE_LLM
                => (~Entered("GENERATE") <=> on.answer = REFUSAL))

\* the context of a selected chunk was returned with RAG_USE_LLM=0
C17_Witness ==
  /\ pc = "answered" /\ ~USE_LLM /\ top_chunks # <<>>
  /\ answer = Joined(context) /\ calls = <<"embed">>

\* C18: with the same question, index and provider responses, the call
\* returns the same value, raises the same and makes the same provider calls
\* with RAG_DEBUG=1 as with RAG_DEBUG unset; without RAG_DEBUG nothing is
\* printed to sys.stderr.
C18_DebugKeepsControlFlow ==
  pc = "answered"
    => LET other == AnswerQuestion(question, CHUNKS, USE_LLM, ~DEBUG, embed_resp, gen_resp)
       IN /\ other.answer = answer /\ other.raised = raised /\ other.calls = calls
          /\ (~DEBUG => stderr = <<>>)

\* with RAG_DEBUG=1 the tokens and the ranking were printed and the
\* generated answer was returned
C18_Witness ==
  /\ pc = "answered" /\ DEBUG /\ USE_LLM /\ Len(stderr) = 2
  /\ calls = <<"embed", "generate">> /\ answer = Literal(GeneratedText)

\* the stages of a query in their order
StageOrder == <<"TOKENIZE", "EMBED_QUERY", "RANK", "SELECT", "GENERATE">>

\* C21: the stages entered by a query are a prefix of TOKENIZE, EMBED_QUERY,
\* RANK, SELECT, GENERATE, each entered once, and the call ends with a return
\* value; the provider calls of a query are none, one embedding call, or one
\* embedding call followed by one generation call, whatever the providers
\* answer; the generation call is made only with a non-empty embedding
\* result and a non-empty selection.
C21_StagesInOrderNoRetry ==
  pc = "answered"
    => /\ Len(stages) >= 1 /\ Len(stages) <= Len(StageOrder)
       /\ stages = SubSeq(StageOrder, 1, Len(stages))
       /\ answer # NoAnswer /\ raised = NoException
       /\ calls \in { <<>>, <<"embed">>, <<"embed", "generate">> }
       /\ (Called("embed") <=> Entered("EMBED_QUERY"))
       /\ (Called("generate") <=> Entered("GENERATE"))
       /\ (Called("generate") => q_embed # <<>> /\ top_chunks # <<>>)
       /\ (embed_resp = NoCall <=> ~Called("embed"))
       /\ (gen_resp = NoCall <=> ~Called("generate"))

\* the generation provider raised after the embedding provider had answered:
\* each was called once and the question was refused
C21_Witness ==
  /\ pc = "answered" /\ gen_resp.kind = "raise" /\ embed_resp.kind = "data"
  /\ calls = <<"embed", "generate">> /\ stages = StageOrder /\ answer = REFUSAL

\* C23: a chunk whose embedding has another length than the query vector
\* has score 0.0 in the ranking, whatever the two vectors have in common, and
\* is not among the selected chunks; the call raises nothing.
C23_LengthMismatchScoresZero ==
  (pc = "answered" /\ q_embed # <<>>)
    => /\ raised = NoException
       /\ \A i \in DOMAIN scored_chunks :
            Len(scored_chunks[i].chunk.embedding) # Len(q_embed[1])
              => /\ scored_chunks[i].score = ZeroScore
                 /\ scored_chunks[i].chunk \notin Range(top_chunks)

\* a chunk embedded with one component shares its first component with the
\* query vector of two, and another chunk was selected
C23_Witness ==
  /\ pc = "answered" /\ q_embed # <<>> /\ top_chunks # <<>>
  /\ q_embed[1] = <<1, 0>>
  /\ \E i \in DOMAIN CHUNKS : CHUNKS[i].embedding = <<1>>

\* x == y on floats: False when one side is nan
ScoreEq(x, y) == ~IsNaN(x) /\ ~IsNaN(y) /\ x = y

\* the chunks of the index that share the highest score, when it is positive
TopTied ==
  {i \in DOMAIN CHUNKS :
     /\ ScorePositive(ScoreOf(CHUNKS[i]))
     /\ \A j \in DOMAIN CHUNKS : ~ScoreGT(ScoreOf(CHUNKS[j]), ScoreOf(CHUNKS[i]))}

\* C22: two chunks of equal score stand in the ranking, and in the
\* selection, in the order they have in the index (the page order of the
\* one document here); and when more than TOP_K chunks share the highest
\* score, the selected chunks are the first of them in the index.
C22_TiesKeepIndexOrder ==
  called = "rank"
    => /\ \A i \in DOMAIN scored_chunks : \A j \in DOMAIN scored_chunks :
            (i < j /\ ScoreEq(scored_chunks[i].score, scored_chunks[j].score))
              => scored_chunks[i].chunk.page_number < scored_chunks[j].chunk.page_number
       /\ \A i \in DOMAIN top_chunks : \A j \in DOMAIN top_chunks :
            (i < j /\ ScoreEq(ScoreOf(top_chunks[i]), ScoreOf(top_chunks[j])))
              => top_chunks[i].page_number < top_chunks[j].page_number
       /\ (Cardinality(TopTied) > TOP_K
             => LET tied == SelectSeqBy(CHUNKS, TopTied)
                IN top_chunks = SubSeq(tied, 1, Len(top_chunks)))

\* the places of the events of one kind, and those events in order
EventsOf(op) == {i \in DOMAIN events : events[i].op = op}
EventSeq(op) == SelectSeqBy(events, EventsOf(op))

\* the turn loop of a created session has been left
LoopLeft == session # "none" /\ rpc \in {"finally", "close", "exited"}

\* C24: the agent is invoked at most max_turns times (never, when max_turns
\* <= 0); when the loop has been left, by whatever exit, the history holds
\* two entries for each turn whose agent call returned, the user's message
\* and then the assistant's reply, in the order of the turns; with
\* max_turns <= 0 it is empty.
C24_TurnsBoundedHistoryPaired ==
  session # "none"
    => /\ Cardinality(EventsOf("agent")) <= (IF max_turns > 0 THEN max_turns ELSE 0)
       /\ (LoopLeft
             => LET asked == EventSeq("agent")
                    replied == EventSeq("reply")
                IN /\ Len(conversation_history) = 2 * Len(replied)
                   /\ \A k \in DOMAIN replied :
                        /\ conversation_history[2 * k - 1] =
                             [role |-> "user", content |-> asked[k].content]
                        /\ conversation_history[2 * k] =
                             [role |-> "assistant", content |-> replied[k].content])
       /\ (max_turns <= 0 => EventsOf("agent") = {} /\ conversation_history = <<>>)

\* the agent raised in the third turn: two turns are complete and the
\* history holds their four entries
C24_Witness ==
  /\ rpc = "exited" /\ pending = "Exception" /\ turn = 3 /\ max_turns = 3
  /\ Cardinality(EventsOf("agent")) = 3 /\ Len(conversation_history) = 4

\* C25: after simulate_user_turn returned continue = False, the simulator
\* is not called again, the agent is called once more at most, with the
\* message of that return, and when the loop has been left it was called
\* exactly once with it and stop_reason is the reason of that return.
C25_FinalTurnAfterStop ==
  \A i \in DOMAIN events :
    (events[i].op = "simulate" /\ ~events[i].cont)
      => LET later_agent == {j \in EventsOf("agent") : j > i}
         IN /\ \A j \in EventsOf("simulate") : j <= i
            /\ Cardinality(later_agent) <= 1
            /\ \A j \in later_agent : events[j].content = events[i].content
            /\ (LoopLeft => /\ Cardinality(later_agent) = 1
                            /\ stop_reason = events[i].reason)

\* the simulator stopped without a reason and its message was the turn
\* number max_turns: the run ended with the stop_reason of the simulator
C25_Witness ==
  /\ rpc = "exited" /\ turn = max_turns /\ stop_reason = None /\ pending = NoException
  /\ \E i \in EventsOf("simulate") : ~events[i].cont /\ events[i].reason = None
  /\ Len(conversation_history) = 2 * max_turns

\* C26: once the session is created, save_history is called once when the
\* loop is left, by whatever exit, and not before; it writes the history as
\* the loop left it; the session is closed after save_history returned, and
\* not otherwise.
C26_SavedOnceThenClosed ==
  session # "none"
    => /\ Cardinality(EventsOf("save")) <= 1 /\ Len(saved) <= 1
       /\ (rpc \in {"close", "exited"} <=> Cardinality(EventsOf("save")) = 1)
       /\ (saved # <<>> => saved = <<conversation_history>>)
       /\ (rpc \in {"close", "exited"} /\ pending # "OSError" => saved # <<>>)
       /\ Cardinality(EventsOf("close")) <= 1
       /\ (session = "closed" <=> EventsOf("close") # {})
       /\ \A j \in EventsOf("close") :
            saved # <<>> /\ \E i \in EventsOf("save") : i < j

\* the simulator raised after the first turn: the two entries were saved
\* and the session was closed
C26_Witness ==
  /\ rpc = "exited" /\ pending = "Exception" /\ session = "closed"
  /\ events[Len(events) - 2].op = "simulate"
  /\ saved = <<conversation_history>> /\ Len(conversation_history) = 2

====
